---- MODULE Spec2Model ----
(***************************************************************************)
(* Capacity-bounded registration of the event platform                     *)
(* (backend/routes/events.js, backend/models/Event.js).                    *)
(*                                                                         *)
(* The store is one MongoDB collection of Event documents.  The RSVP       *)
(* handler runs inside a multi-document transaction: its read is a         *)
(* snapshot read that takes no lock, and its write fails at once with a    *)
(* write conflict when the document was written after the snapshot or is   *)
(* being written by another open transaction.  The handler has no retry.   *)
(* The other handlers run outside any transaction.  Mongoose turns         *)
(* attendees.splice + save into one updateOne that $set's the whole array  *)
(* under the filter {_id, __v} and raises VersionError when nothing        *)
(* matched; attendees.push + save is a $push that increments __v without   *)
(* filtering on it; a changed scalar is a $set that neither filters on     *)
(* nor increments __v.  A write outside a transaction waits while an open  *)
(* transaction holds an uncommitted write of the document.                 *)
(*                                                                         *)
(* Every handler is cut at its awaits: the code between two awaits runs    *)
(* without interleaving.  Of an event's fields the model keeps capacity,   *)
(* attendees, date, creator, image and __v; title, description and         *)
(* location are stored and returned but never read by a handler.  The      *)
(* uploads directory is the set of image files on disk.                    *)
(***************************************************************************)
EXTENDS Integers, Sequences, FiniteSets

\* ---------------------------------------------------------------- bounds
\* Requests issued in one run, users, largest capacity, clock horizon.
MaxReqs == 2
NumUsers == 2
MaxCap == 2
MaxTime == 1

Reqs == 1..MaxReqs
Users == 1..NumUsers
Times == 0..MaxTime

\* The event identifier the requests of a run name.
EventIds == {"e1"}

\* The identifiers of the collection: a second event for the runs whose
\* requests name two events.
AllEventIds == {"e1", "e2"}

\* ------------------------------------------------------- response bodies
EventNotFound == "Event not found"
EventEnded == "Cannot RSVP to past events"
AlreadyRegistered == "You are already registered for this event"
Full == "Event is full"
Registered == "RSVP successful"
RsvpFailed == "RSVP failed"
NotRegistered == "You are not registered for this event"
Cancelled == "RSVP cancelled successfully"
ServerError == "Server error"
NotAuthorizedUpdate == "Not authorized to update this event"
NotAuthorizedDelete == "Not authorized to delete this event"
Updated == "updated event"
Deleted == "Event deleted successfully"
MissingFields == "Please provide all required fields"
Created == "created event"
Listed == "events"
\* No response sent yet.
NoResponse == "none"
\* Not a response: every check of the handler passed.
Proceed == "proceed"

\* ------------------------------------------------------------ documents
\* exists = FALSE is "no document with this _id" (findById yields null).
\* v is Mongoose's __v; ts is the storage engine's stamp of the last
\* committed write of the document, which write-conflict detection reads.
\* image is the file the event's image path names, 0 for the empty path.
NoDoc == [exists |-> FALSE, capacity |-> 0, attendees |-> << >>, date |-> 0,
          creator |-> 0, image |-> 0, v |-> 0, ts |-> 0]

FirstUsers(k) == [i \in 1..k |-> i]

\* An event created by user 1 on which users 1..k then registered in turn.
\* The clock counts from the event's date: the date is 0.  No image was
\* uploaded with it.
NewDoc(cap, k) == [exists |-> TRUE, capacity |-> cap, attendees |-> FirstUsers(k),
                   date |-> 0, creator |-> 1, image |-> 0, v |-> k, ts |-> k]

\* The collection that holds doc under the first identifier and nothing else.
OneEvent(doc) == [e \in AllEventIds |-> IF e \in EventIds THEN doc ELSE NoDoc]

Range(s) == {s[i] : i \in 1..Len(s)}

NoDuplicates(s) == \A i, j \in 1..Len(s) : s[i] = s[j] => i = j

\* db: the collection.  now: the last reading of the clock (new Date()).
\* req: the requests, each with its handler's position and locals.
\* initial: the collection at the start of the run.  files: the image files
\* in the uploads directory.
VARIABLES db, now, req, initial, files

vars == <<db, now, req, initial, files>>

\* kind, user, event, arg: the request.  pc: the await the handler is at.
\* calls: the calls the handler made on its session after startTransaction,
\* in order: "commit", "abort" and "end" returned, "commitThrew" and
\* "abortThrew" threw.
\* txn: the handler's transaction.  snap: the document it read, at: the
\* clock reading it compared the date with, local: its modified copy,
\* decided: the result of its checks.  outcome, view: the response.  preds: the requests answered
\* before this one arrived.  stamp: the ts its write committed with.  file:
\* the file multer stored for the request (req.file), 0 for none.  body: the
\* creator and attendees fields of a create request's body.
IdleReq == [kind |-> "none", user |-> 0, event |-> "e1", arg |-> 0, file |-> 0,
            body |-> [creator |-> 0, attendees |-> << >>], pc |-> "idle",
            txn |-> "none", snap |-> NoDoc, at |-> 0, local |-> NoDoc,
            decided |-> NoResponse, outcome |-> NoResponse, view |-> NoDoc,
            preds |-> {}, stamp |-> 0, list |-> << >>, calls |-> << >>]

Done(r) == req[r].pc = "done"
DoneSet == {q \in Reqs : Done(q)}
Started == {q \in Reqs : req[q].pc # "idle"}
Quiescent == \A r \in Reqs : req[r].pc \in {"idle", "done"}

\* Requests are numbered in arrival order.
NextToArrive(r) == /\ req[r].pc = "idle"
                   /\ \A q \in Reqs : q < r => req[q].pc # "idle"

\* The order of arrivals and answers is recorded for registers and cancels.
Arrive(r, k, u, e, a, t) ==
    [IdleReq EXCEPT !.kind = k, !.user = u, !.event = e, !.arg = a, !.pc = "find",
                    !.txn = t, !.preds = IF k \in {"rsvp", "cancel"} THEN DoneSet ELSE {}]

Init ==
    /\ now = 0
    /\ \/ db = OneEvent(NoDoc)
       \/ \E cap \in 1..MaxCap, k \in 0..MaxCap :
             /\ k <= cap
             /\ k <= NumUsers
             /\ db = OneEvent(NewDoc(cap, k))
    /\ initial = db
    /\ req = [r \in Reqs |-> IdleReq]
    /\ files = {}

\* ----------------------------------------------------------- the store
\* WriteLocked of a store with one lock for the whole collection.
WriteLockedAnyEvent(e, r) == \E q \in Reqs : /\ q # r
                                             /\ req[q].kind = "rsvp"
                                             /\ req[q].pc = "commit"

\* An open transaction other than r's holds an uncommitted write of e.
WriteLocked(e, r) == \E q \in Reqs : /\ q # r
                                     /\ req[q].kind = "rsvp"
                                     /\ req[q].pc = "commit"
                                     /\ req[q].event = e

\* WriteConflict of a store that detects no conflict (a read and a write that
\* share no transaction).
WriteConflictNever(r) == FALSE

\* WriteConflict of a store that sees only the writes still held by open
\* transactions, not those committed after the snapshot.
WriteConflictLockOnly(r) == WriteLocked(req[r].event, r)

\* The write of a transaction meets a write conflict: the document was
\* written after the transaction's snapshot, or another transaction holds it.
WriteConflict(r) ==
    \/ db[req[r].event].ts # req[r].snap.ts
    \/ WriteLocked(req[r].event, r)

\* VersionMatches of a save that does not filter on __v.
VersionIgnored(doc, snap) == doc.exists

\* The filter {_id, __v} of a save that may move array positions matches.
VersionMatches(doc, snap) == doc.exists /\ doc.v = snap.v

\* ------------------------------------------------- POST /:id/rsvp
\* RsvpCheck without the already-registered check.
RsvpCheckNoDup(doc, uid, t) ==
    IF ~doc.exists THEN EventNotFound
    ELSE IF doc.date < t THEN EventEnded
    ELSE IF Len(doc.attendees) >= doc.capacity THEN Full
    ELSE Proceed

\* RsvpCheck with the capacity check before the already-registered check.
RsvpCheckFullFirst(doc, uid, t) ==
    IF ~doc.exists THEN EventNotFound
    ELSE IF doc.date < t THEN EventEnded
    ELSE IF Len(doc.attendees) >= doc.capacity THEN Full
    ELSE IF \E i \in 1..Len(doc.attendees) : doc.attendees[i] = uid THEN AlreadyRegistered
    ELSE Proceed

\* The checks on the document read inside the transaction, in code order.
RsvpCheck(doc, uid, t) ==
    IF ~doc.exists THEN EventNotFound
    ELSE IF doc.date < t THEN EventEnded
    ELSE IF \E i \in 1..Len(doc.attendees) : doc.attendees[i] = uid THEN AlreadyRegistered
    ELSE IF Len(doc.attendees) >= doc.capacity THEN Full
    ELSE Proceed

\* event.attendees.push(req.user.id); the save increments __v.
Push(doc, uid) == [doc EXCEPT !.attendees = Append(@, uid), !.v = @ + 1]

\* startSession and startTransaction.
RsvpStart(r, u, e) ==
    /\ NextToArrive(r)
    /\ req' = [req EXCEPT ![r] = Arrive(r, "rsvp", u, e, 0, "active")]
    /\ UNCHANGED <<db, now, initial, files>>

\* findById in the session, and the checks up to the next await.  t is the
\* value new Date() returns, not before the clock's last reading.
RsvpFind(r, t) ==
    /\ req[r].kind = "rsvp"
    /\ req[r].pc = "find"
    /\ t >= now
    /\ now' = t
    /\ LET doc == db[req[r].event]
           res == RsvpCheck(doc, req[r].user, t)
       IN req' = [req EXCEPT ![r].snap = doc,
                             ![r].at = t,
                             ![r].decided = res,
                             ![r].local = IF res = Proceed THEN Push(doc, req[r].user) ELSE NoDoc,
                             ![r].pc = IF res = Proceed THEN "save" ELSE "abort"]
    /\ UNCHANGED <<db, initial, files>>

\* RsvpAbort of a handler that pushed and saved before it ran its checks and
\* answers the failed check without rolling the write back.
RsvpAbortAfterPush(r) ==
    /\ req[r].kind = "rsvp"
    /\ req[r].pc = "abort"
    /\ db' = [db EXCEPT ![req[r].event] = [Push(@, req[r].user) EXCEPT !.ts = @ + 1]]
    /\ req' = [req EXCEPT ![r].txn = "aborted", ![r].outcome = req[r].decided,
                          ![r].calls = << "abort", "end" >>, ![r].pc = "done"]
    /\ UNCHANGED <<now, initial, files>>

\* abortTransaction, endSession and the response after a failed check.
RsvpAbort(r) ==
    /\ req[r].kind = "rsvp"
    /\ req[r].pc = "abort"
    /\ req' = [req EXCEPT ![r].txn = "aborted", ![r].outcome = req[r].decided,
                          ![r].calls = << "abort", "end" >>, ![r].pc = "done"]
    /\ UNCHANGED <<db, now, initial, files>>

\* event.save({ session }): the transaction holds the write, or it throws.
RsvpSave(r) ==
    /\ req[r].kind = "rsvp"
    /\ req[r].pc = "save"
    /\ req' = [req EXCEPT ![r].pc = IF WriteConflict(r) THEN "catch" ELSE "commit"]
    /\ UNCHANGED <<db, now, initial, files>>

\* RsvpCommit of a handler that commits and ends its session after the
\* re-read.
RsvpCommitLate(r) ==
    /\ req[r].kind = "rsvp"
    /\ req[r].pc = "commit"
    /\ LET e == req[r].event IN
       /\ db' = [db EXCEPT ![e] = [Push(db[e], req[r].user) EXCEPT !.ts = @ + 1]]
       /\ req' = [req EXCEPT ![r].pc = "reread", ![r].stamp = db[e].ts + 1]
    /\ UNCHANGED <<now, initial, files>>

\* commitTransaction and endSession: the held write, {$push: attendees,
\* $inc: __v}, becomes the document's committed state.
RsvpCommit(r) ==
    /\ req[r].kind = "rsvp"
    /\ req[r].pc = "commit"
    /\ LET e == req[r].event IN
       /\ db' = [db EXCEPT ![e] = [Push(db[e], req[r].user) EXCEPT !.ts = @ + 1]]
       /\ req' = [req EXCEPT ![r].txn = "committed", ![r].pc = "reread",
                             ![r].calls = << "commit", "end" >>,
                             ![r].stamp = db[e].ts + 1]
    /\ UNCHANGED <<now, initial, files>>

\* The populated re-read and the success response.
RsvpRespond(r) ==
    /\ req[r].kind = "rsvp"
    /\ req[r].pc = "reread"
    /\ req' = [req EXCEPT ![r].view = db[req[r].event], ![r].outcome = Registered,
                          ![r].pc = "done"]
    /\ UNCHANGED <<db, now, initial, files>>

\* The catch block: abortTransaction, endSession, 500.
RsvpCatch(r) ==
    /\ req[r].kind = "rsvp"
    /\ req[r].pc = "catch"
    /\ req' = [req EXCEPT ![r].txn = "aborted", ![r].outcome = RsvpFailed,
                          ![r].calls = << "abort", "end" >>, ![r].pc = "done"]
    /\ UNCHANGED <<db, now, initial, files>>

\* ------------------------------------------------- POST /:id/cancel-rsvp
\* IndexOf of a findIndex whose test holds of every attendee.
IndexOfAny(s, uid) == IF Len(s) > 0 THEN 1 ELSE 0

\* findIndex: the first position of uid, 0 for -1.
IndexOf(s, uid) == IF \E i \in 1..Len(s) : s[i] = uid
                   THEN CHOOSE i \in 1..Len(s) : s[i] = uid /\ \A j \in 1..(i - 1) : s[j] # uid
                   ELSE 0

\* Splice that always removes the last element (pop).
SplicePop(s, i) == SubSeq(s, 1, Len(s) - 1)

\* splice(i, 1).
Splice(s, i) == [j \in 1..(Len(s) - 1) |-> IF j < i THEN s[j] ELSE s[j + 1]]

CancelCheck(doc, uid) ==
    IF ~doc.exists THEN EventNotFound
    ELSE IF IndexOf(doc.attendees, uid) = 0 THEN NotRegistered
    ELSE Proceed

CancelStart(r, u, e) ==
    /\ NextToArrive(r)
    /\ req' = [req EXCEPT ![r] = Arrive(r, "cancel", u, e, 0, "none")]
    /\ UNCHANGED <<db, now, initial, files>>

\* findById, the checks (answered at once when one fails) and the splice.
CancelFind(r) ==
    /\ req[r].kind = "cancel"
    /\ req[r].pc = "find"
    /\ LET doc == db[req[r].event]
           res == CancelCheck(doc, req[r].user)
       IN req' = [req EXCEPT ![r].snap = doc,
                             ![r].decided = res,
                             ![r].local = IF res = Proceed
                                          THEN [doc EXCEPT !.attendees = Splice(@, IndexOf(@, req[r].user))]
                                          ELSE NoDoc,
                             ![r].outcome = IF res = Proceed THEN NoResponse ELSE res,
                             ![r].pc = IF res = Proceed THEN "save" ELSE "done"]
    /\ UNCHANGED <<db, now, initial, files>>

\* event.save(): $set of the whole array where __v is the one read, or
\* VersionError and the 500 of the catch block.
CancelSave(r) ==
    /\ req[r].kind = "cancel"
    /\ req[r].pc = "save"
    /\ LET e == req[r].event IN
       /\ ~WriteLocked(e, r)
       /\ IF VersionMatches(db[e], req[r].snap)
          THEN /\ db' = [db EXCEPT ![e].attendees = req[r].local.attendees,
                                   ![e].v = @ + 1, ![e].ts = @ + 1]
               /\ req' = [req EXCEPT ![r].pc = "reread", ![r].stamp = db[e].ts + 1]
          ELSE /\ db' = db
               /\ req' = [req EXCEPT ![r].pc = "done", ![r].outcome = ServerError]
    /\ UNCHANGED <<now, initial, files>>

\* The populated re-read and the success response.
CancelRespond(r) ==
    /\ req[r].kind = "cancel"
    /\ req[r].pc = "reread"
    /\ req' = [req EXCEPT ![r].view = db[req[r].event], ![r].outcome = Cancelled,
                          ![r].pc = "done"]
    /\ UNCHANGED <<db, now, initial, files>>

\* ------------------------------------------------- PUT /:id
\* a is the capacity of the request body after parseInt; MaxCap + 1 stands
\* for a body without capacity (falsy, the field is left alone).
CapArgs == 0..(MaxCap + 1)

\* The body of the request has no capacity.
NoCapacity(a) == a = MaxCap + 1

UpdateCheck(doc, uid) ==
    IF ~doc.exists THEN EventNotFound
    ELSE IF doc.creator # uid THEN NotAuthorizedUpdate
    ELSE Proceed

SetCapacity(doc, a) == IF a = MaxCap + 1 THEN doc ELSE [doc EXCEPT !.capacity = a]

\* The file multer stores for request r; the generated names are unique.
\* File 1 is the image uploaded when the event was created.
FileOf(r) == r + 1

\* if (req.file) event.image = the uploaded file's path.
SetImage(doc, f) == IF f = 0 THEN doc ELSE [doc EXCEPT !.image = f]

\* Valid of a schema without the minimum on capacity.
ValidAny(doc) == TRUE

\* The schema's validation of capacity (required, min 1).
Valid(doc) == doc.capacity >= 1

\* upload.single('image') runs before the handler: with a file in the
\* request (withFile) it is on disk when the handler starts.
UpdateStart(r, u, e, a, withFile) ==
    /\ NextToArrive(r)
    /\ req' = [req EXCEPT ![r] = [Arrive(r, "update", u, e, a, "none")
                                   EXCEPT !.file = IF withFile THEN FileOf(r) ELSE 0]]
    /\ files' = IF withFile THEN files \cup {FileOf(r)} ELSE files
    /\ UNCHANGED <<db, now, initial>>

UpdateFind(r) ==
    /\ req[r].kind = "update"
    /\ req[r].pc = "find"
    /\ LET doc == db[req[r].event]
           res == UpdateCheck(doc, req[r].user)
       IN req' = [req EXCEPT ![r].snap = doc,
                             ![r].decided = res,
                             ![r].local = IF res = Proceed
                                          THEN SetImage(SetCapacity(doc, req[r].arg), req[r].file)
                                          ELSE NoDoc,
                             ![r].outcome = IF res = Proceed THEN NoResponse ELSE res,
                             ![r].pc = IF res = Proceed THEN "save" ELSE "done"]
    /\ UNCHANGED <<db, now, initial, files>>

\* The handler changed a field of the document it read.
Modified(r) == \/ req[r].local.capacity # req[r].snap.capacity
               \/ req[r].local.image # req[r].snap.image

\* UpdateSave of a save that writes the whole document the handler holds.
UpdateSaveWhole(r) ==
    /\ req[r].kind = "update"
    /\ req[r].pc = "save"
    /\ LET e == req[r].event IN
       /\ ~WriteLocked(e, r)
       /\ IF Valid(req[r].local) /\ db[e].exists
          THEN /\ db' = [db EXCEPT ![e] = [req[r].local EXCEPT !.ts = db[e].ts + 1]]
               /\ req' = [req EXCEPT ![r].pc = "reread", ![r].stamp = db[e].ts + 1]
          ELSE /\ db' = db
               /\ req' = [req EXCEPT ![r].pc = "done", ![r].outcome = ServerError]
    /\ UNCHANGED <<now, initial, files>>

\* event.save(): validation, then $set of the changed fields (capacity,
\* image) with no filter on __v; an unchanged document is only looked up.
UpdateSave(r) ==
    /\ req[r].kind = "update"
    /\ req[r].pc = "save"
    /\ LET e == req[r].event IN
       /\ ~WriteLocked(e, r)
       /\ IF Valid(req[r].local) /\ db[e].exists
          THEN /\ db' = IF Modified(r)
                        THEN [db EXCEPT ![e].capacity = IF req[r].local.capacity # req[r].snap.capacity
                                                        THEN req[r].local.capacity ELSE @,
                                        ![e].image = IF req[r].local.image # req[r].snap.image
                                                     THEN req[r].local.image ELSE @,
                                        ![e].ts = @ + 1]
                        ELSE db
               /\ req' = [req EXCEPT ![r].pc = "reread",
                                     ![r].stamp = IF Modified(r) THEN db[e].ts + 1 ELSE 0]
          ELSE /\ db' = db
               /\ req' = [req EXCEPT ![r].pc = "done", ![r].outcome = ServerError]
    /\ UNCHANGED <<now, initial, files>>

UpdateRespond(r) ==
    /\ req[r].kind = "update"
    /\ req[r].pc = "reread"
    /\ req' = [req EXCEPT ![r].view = db[req[r].event], ![r].outcome = Updated,
                          ![r].pc = "done"]
    /\ UNCHANGED <<db, now, initial, files>>

\* ------------------------------------------------- POST /
\* The _id of a new Event is one no document has had and no other request
\* in flight has generated.
FreshId(e) == /\ db[e] = NoDoc
              /\ \A q \in Reqs : ~(req[q].kind = "create" /\ req[q].event = e
                                     /\ req[q].pc \in {"save", "reread"})

\* A body without creator and attendees fields.
NoBody == [creator |-> 0, attendees |-> << >>]

\* The creator and attendees a body can carry: none, or any user.
Bodies == {[creator |-> c, attendees |-> s] :
              c \in {0} \cup Users, s \in {<< >>} \cup {<<u>> : u \in Users}}

\* EventData of a handler that copies the body's creator and attendees
\* into the document when the body has them.
EventDataFromBody(cap, uid, f, body) ==
    [exists |-> TRUE, capacity |-> cap, attendees |-> body.attendees, date |-> 0,
     creator |-> IF body.creator = 0 THEN uid ELSE body.creator, image |-> f,
     v |-> 0, ts |-> 1]

\* eventData: the document built from the request; the other required
\* fields are present.  Of the body only the destructured fields are read.
EventData(cap, uid, f, body) ==
    [exists |-> TRUE, capacity |-> cap, attendees |-> << >>, date |-> 0,
     creator |-> uid, image |-> f, v |-> 0, ts |-> 1]

\* upload.single('image') and the handler up to event.save(): a body
\* without capacity is answered 400, else the Event is built with _id e.
CreateStart(r, u, e, a, withFile, body) ==
    /\ NextToArrive(r)
    /\ FreshId(e)
    /\ LET f == IF withFile THEN FileOf(r) ELSE 0
           arrived == [Arrive(r, "create", u, e, a, "none") EXCEPT !.file = f, !.body = body]
       IN /\ req' = [req EXCEPT ![r] =
                        IF NoCapacity(a)
                        THEN [arrived EXCEPT !.decided = MissingFields, !.outcome = MissingFields,
                                             !.pc = "done"]
                        ELSE [arrived EXCEPT !.decided = Proceed,
                                             !.local = EventData(a, u, f, body),
                                             !.pc = "save"]]
          /\ files' = IF withFile THEN files \cup {f} ELSE files
    /\ UNCHANGED <<db, now, initial>>

\* event.save(): validation, then the insert; a validation error is
\* answered 500 by the catch block.
CreateSave(r) ==
    /\ req[r].kind = "create"
    /\ req[r].pc = "save"
    /\ IF Valid(req[r].local)
       THEN /\ db' = [db EXCEPT ![req[r].event] = req[r].local]
            /\ req' = [req EXCEPT ![r].pc = "reread", ![r].stamp = req[r].local.ts]
       ELSE /\ db' = db
            /\ req' = [req EXCEPT ![r].pc = "done", ![r].outcome = ServerError]
    /\ UNCHANGED <<now, initial, files>>

\* The populated re-read and the 201 response.
CreateRespond(r) ==
    /\ req[r].kind = "create"
    /\ req[r].pc = "reread"
    /\ req' = [req EXCEPT ![r].view = db[req[r].event], ![r].outcome = Created,
                          ![r].pc = "done"]
    /\ UNCHANGED <<db, now, initial, files>>

\* ------------------------------------------------- DELETE /:id
\* DeleteCheck without the comparison of the creator with the requestor.
DeleteCheckNoOwner(doc, uid) ==
    IF ~doc.exists THEN EventNotFound
    ELSE Proceed

DeleteCheck(doc, uid) ==
    IF ~doc.exists THEN EventNotFound
    ELSE IF doc.creator # uid THEN NotAuthorizedDelete
    ELSE Proceed

DeleteStart(r, u, e) ==
    /\ NextToArrive(r)
    /\ req' = [req EXCEPT ![r] = Arrive(r, "delete", u, e, 0, "none")]
    /\ UNCHANGED <<db, now, initial, files>>

\* findById, the checks (answered at once when one fails) and the removal
\* of the image file the document names, when there is one on disk.
DeleteFind(r) ==
    /\ req[r].kind = "delete"
    /\ req[r].pc = "find"
    /\ LET doc == db[req[r].event]
           res == DeleteCheck(doc, req[r].user)
       IN /\ req' = [req EXCEPT ![r].snap = doc,
                                ![r].decided = res,
                                ![r].outcome = IF res = Proceed THEN NoResponse ELSE res,
                                ![r].pc = IF res = Proceed THEN "save" ELSE "done"]
          /\ files' = IF res = Proceed /\ doc.image # 0 THEN files \ {doc.image} ELSE files
    /\ UNCHANGED <<db, now, initial>>

\* findByIdAndDelete and the response; deleting what is gone also succeeds.
DeleteCommit(r) ==
    /\ req[r].kind = "delete"
    /\ req[r].pc = "save"
    /\ LET e == req[r].event IN
       /\ ~WriteLocked(e, r)
       /\ db' = IF db[e].exists THEN [db EXCEPT ![e] = [NoDoc EXCEPT !.ts = db[e].ts + 1]] ELSE db
       /\ req' = [req EXCEPT ![r].pc = "done", ![r].outcome = Deleted,
                             ![r].stamp = IF db[e].exists THEN db[e].ts + 1 ELSE 0]
    /\ UNCHANGED <<now, initial, files>>

\* ------------------------------------------------- GET /, /user/created, /user/attending
\* The events a find with the filter of listing k and user u matches.
Matching(k, u) ==
    {e \in AllEventIds :
        /\ db[e].exists
        /\ CASE k = "list" -> TRUE
             [] k = "created" -> db[e].creator = u
             [] k = "attending" -> u \in Range(db[e].attendees)}

\* The orders in which a scan of the collection can meet the events of S.
Scans(S) == {s \in [1..Cardinality(S) -> S] : \A i, j \in 1..Cardinality(S) :
                                                  s[i] = s[j] => i = j}

RECURSIVE SortByDate(_)
\* SortByDate of a find without its sort.
Unsorted(scan) == scan

\* sort({ date: 1 }): each event is put after the events of its result so
\* far that are earlier and before the others.
SortByDate(scan) ==
    IF scan = << >> THEN << >>
    ELSE LET e == Head(scan)
             rest == SortByDate(Tail(scan))
         IN  SelectSeq(rest, LAMBDA x : db[x].date < db[e].date)
             \o << e >>
             \o SelectSeq(rest, LAMBDA x : ~(db[x].date < db[e].date))

ListKinds == {"list", "created", "attending"}

ListStart(r, u, k) ==
    /\ NextToArrive(r)
    /\ req' = [req EXCEPT ![r] = Arrive(r, k, u, "e1", 0, "none")]
    /\ UNCHANGED << db, now, initial, files >>

\* The find, its sort and the response with the events found.
ListFind(r) ==
    /\ req[r].kind \in ListKinds
    /\ req[r].pc = "find"
    /\ \E scan \in Scans(Matching(req[r].kind, req[r].user)) :
          req' = [req EXCEPT ![r].list = SortByDate(scan),
                             ![r].at = now,
                             ![r].outcome = Listed,
                             ![r].pc = "done"]
    /\ UNCHANGED << db, now, initial, files >>

\* ------------------------------------------------- the event pages
\* 'Available Spots' of the detail page, getAvailableSpots of the list.
AvailableSpots(doc) == doc.capacity - Len(doc.attendees)

\* isEventFull: the RSVP button is disabled and reads 'Event Full'.
IsEventFull(doc) == Len(doc.attendees) >= doc.capacity

\* ------------------------------------------------- storage errors
\* An awaited call on the store throws (connection lost, timeout).  A call
\* that writes may have been applied by the server when it throws.

\* findById of the RSVP handler throws: the catch block aborts and answers.
RsvpFindFails(r) ==
    /\ req[r].kind = "rsvp"
    /\ req[r].pc = "find"
    /\ req' = [req EXCEPT ![r].pc = "catch"]
    /\ UNCHANGED <<db, now, initial, files>>

\* event.save({ session }) throws for another reason than a write conflict.
RsvpSaveFails(r) ==
    /\ req[r].kind = "rsvp"
    /\ req[r].pc = "save"
    /\ req' = [req EXCEPT ![r].pc = "catch"]
    /\ UNCHANGED <<db, now, initial, files>>

\* The catch block entered after commitTransaction was called:
\* abortTransaction throws on a session whose transaction is committed, so
\* the handler ends in its catch block and sends no response.
RsvpCatchAfterCommit(r) ==
    [req[r] EXCEPT !.calls = Append(@, "abortThrew"), !.pc = "hung"]

\* commitTransaction throws; the server has committed the write or has not.
RsvpCommitFails(r, applied) ==
    /\ req[r].kind = "rsvp"
    /\ req[r].pc = "commit"
    /\ LET e == req[r].event IN
       IF applied
       THEN /\ db' = [db EXCEPT ![e] = [Push(db[e], req[r].user) EXCEPT !.ts = @ + 1]]
            /\ req' = [req EXCEPT ![r] = [RsvpCatchAfterCommit(r)
                                             EXCEPT !.txn = "committed",
                                                    !.calls = << "commitThrew" >> \o @,
                                                    !.stamp = db[e].ts + 1]]
       ELSE /\ db' = db
            /\ req' = [req EXCEPT ![r] = [RsvpCatchAfterCommit(r)
                                             EXCEPT !.txn = "aborted",
                                                    !.calls = << "commitThrew" >> \o @]]
    /\ UNCHANGED <<now, initial, files>>

\* The re-read after the commit throws.
RsvpRereadFails(r) ==
    /\ req[r].kind = "rsvp"
    /\ req[r].pc = "reread"
    /\ req' = [req EXCEPT ![r] = RsvpCatchAfterCommit(r)]
    /\ UNCHANGED <<db, now, initial, files>>

\* findById of the cancel handler throws: 500.
CancelFindFails(r) ==
    /\ req[r].kind = "cancel"
    /\ req[r].pc = "find"
    /\ req' = [req EXCEPT ![r].pc = "done", ![r].outcome = ServerError]
    /\ UNCHANGED <<db, now, initial, files>>

\* event.save() of the cancel handler throws; the server has applied the
\* update (when its filter matched) or has not.
CancelSaveFails(r, applied) ==
    /\ req[r].kind = "cancel"
    /\ req[r].pc = "save"
    /\ LET e == req[r].event IN
       /\ ~WriteLocked(e, r)
       /\ IF applied /\ VersionMatches(db[e], req[r].snap)
          THEN /\ db' = [db EXCEPT ![e].attendees = req[r].local.attendees,
                                   ![e].v = @ + 1, ![e].ts = @ + 1]
               /\ req' = [req EXCEPT ![r].pc = "done", ![r].outcome = ServerError,
                                     ![r].stamp = db[e].ts + 1]
          ELSE /\ db' = db
               /\ req' = [req EXCEPT ![r].pc = "done", ![r].outcome = ServerError]
    /\ UNCHANGED <<now, initial, files>>

\* The re-read after the cancel's save throws: 500.
CancelRereadFails(r) ==
    /\ req[r].kind = "cancel"
    /\ req[r].pc = "reread"
    /\ req' = [req EXCEPT ![r].pc = "done", ![r].outcome = ServerError]
    /\ UNCHANGED <<db, now, initial, files>>

\* ------------------------------------------------------- specifications
RsvpStep(r) == \/ \E t \in Times : RsvpFind(r, t)
               \/ RsvpAbort(r)
               \/ RsvpSave(r)
               \/ RsvpCommit(r)
               \/ RsvpRespond(r)

CancelStep(r) == \/ CancelFind(r)
                 \/ CancelSave(r)
                 \/ CancelRespond(r)

\* Register and cancel requests, arriving at any time.
Next == \/ \E r \in Reqs, u \in Users, e \in EventIds : RsvpStart(r, u, e)
        \/ \E r \in Reqs, u \in Users, e \in EventIds : CancelStart(r, u, e)
        \/ \E r \in Reqs : RsvpStep(r)
        \/ \E r \in Reqs : RsvpCatch(r)
        \/ \E r \in Reqs : CancelStep(r)

Spec == Init /\ [][Next]_vars

\* Register, cancel and delete requests, arriving at any time.
DeleteNext == \/ Next
              \/ \E r \in Reqs, u \in Users, e \in EventIds : DeleteStart(r, u, e)
              \/ \E r \in Reqs : DeleteFind(r)
              \/ \E r \in Reqs : DeleteCommit(r)

DeleteSpec == Init /\ [][DeleteNext]_vars

\* Register, cancel, delete and update requests, arriving at any time.
FullNext == \/ DeleteNext
            \/ \E r \in Reqs, u \in Users, e \in EventIds, a \in CapArgs, f \in BOOLEAN :
                  UpdateStart(r, u, e, a, f)
            \/ \E r \in Reqs : UpdateFind(r)
            \/ \E r \in Reqs : UpdateSave(r)
            \/ \E r \in Reqs : UpdateRespond(r)

FullSpec == Init /\ [][FullNext]_vars

\* The collection holds no event, or one event of the largest capacity,
\* with or without an image, created by user 1 on which users 1..k then
\* registered.
OwnerInit ==
    /\ now = 0
    /\ \/ db = OneEvent(NoDoc) /\ files = {}
       \/ \E k \in 0..MaxCap, img \in {0, 1} :
             /\ k <= NumUsers
             /\ db = OneEvent([NewDoc(MaxCap, k) EXCEPT !.image = img])
             /\ files = IF img = 0 THEN {} ELSE {img}
    /\ initial = db
    /\ req = [r \in Reqs |-> IdleReq]

\* The routes reserved to an event's creator: update and delete requests,
\* arriving at any time, an update with or without an image and with a
\* capacity of 1 or none.
OwnerNext == \/ \E r \in Reqs, u \in Users, e \in EventIds, a \in {1, MaxCap + 1}, f \in BOOLEAN :
                   UpdateStart(r, u, e, a, f)
             \/ \E r \in Reqs : UpdateFind(r)
             \/ \E r \in Reqs : UpdateSave(r)
             \/ \E r \in Reqs : UpdateRespond(r)
             \/ \E r \in Reqs, u \in Users, e \in EventIds : DeleteStart(r, u, e)
             \/ \E r \in Reqs : DeleteFind(r)
             \/ \E r \in Reqs : DeleteCommit(r)

OwnerSpec == OwnerInit /\ [][OwnerNext]_vars

\* The routes that set an event's capacity: create and update requests
\* without an image, arriving at any time.
CreateNext == \/ \E r \in Reqs, u \in Users, e \in EventIds, a \in CapArgs :
                    CreateStart(r, u, e, a, FALSE, NoBody)
              \/ \E r \in Reqs : CreateSave(r)
              \/ \E r \in Reqs : CreateRespond(r)
              \/ \E r \in Reqs, u \in Users, e \in EventIds, a \in CapArgs :
                    UpdateStart(r, u, e, a, FALSE)
              \/ \E r \in Reqs : UpdateFind(r)
              \/ \E r \in Reqs : UpdateSave(r)
              \/ \E r \in Reqs : UpdateRespond(r)

CreateSpec == Init /\ [][CreateNext]_vars

\* Two events of the largest capacity with the same attendees 1..k, one
\* attendee or as many as fit.
TwoInit ==
    /\ now = 0
    /\ \E k \in {1, MaxCap} :
          /\ k <= NumUsers
          /\ db = [e \in AllEventIds |-> NewDoc(MaxCap, k)]
    /\ initial = db
    /\ req = [r \in Reqs |-> IdleReq]
    /\ files = {}

\* Register and cancel requests and the creator's delete requests on either
\* of two events, arriving at any time before the events' date.
TwoNext == \/ \E r \in Reqs, u \in Users, e \in AllEventIds : RsvpStart(r, u, e)
           \/ \E r \in Reqs, u \in Users, e \in AllEventIds : CancelStart(r, u, e)
           \/ \E r \in Reqs, e \in AllEventIds : DeleteStart(r, 1, e)
           \/ \E r \in Reqs : RsvpFind(r, now)
           \/ \E r \in Reqs : RsvpAbort(r)
           \/ \E r \in Reqs : RsvpSave(r)
           \/ \E r \in Reqs : RsvpCommit(r)
           \/ \E r \in Reqs : RsvpRespond(r)
           \/ \E r \in Reqs : RsvpCatch(r)
           \/ \E r \in Reqs : CancelStep(r)
           \/ \E r \in Reqs : DeleteFind(r)
           \/ \E r \in Reqs : DeleteCommit(r)

TwoSpec == TwoInit /\ [][TwoNext]_vars

\* Create requests of capacity 0 or 1, without an image, whose bodies carry
\* any creator and attendees, arriving at any time.
PayloadNext == \/ \E r \in Reqs, u \in Users, e \in EventIds, a \in {0, 1}, body \in Bodies :
                     CreateStart(r, u, e, a, FALSE, body)
               \/ \E r \in Reqs : CreateSave(r)
               \/ \E r \in Reqs : CreateRespond(r)

PayloadSpec == Init /\ [][PayloadNext]_vars

\* Register and cancel requests issued one after the other: a request
\* arrives only when every earlier one has been answered.  No write then
\* meets a conflict, so the catch block of the RSVP handler is never entered.
SeqNext == \/ \E r \in Reqs, u \in Users, e \in EventIds : Quiescent /\ RsvpStart(r, u, e)
           \/ \E r \in Reqs, u \in Users, e \in EventIds : Quiescent /\ CancelStart(r, u, e)
           \/ \E r \in Reqs : RsvpStep(r)
           \/ \E r \in Reqs : CancelStep(r)

SeqSpec == Init /\ [][SeqNext]_vars

\* Register and cancel requests on a store whose calls can throw.
FaultNext == \/ Next
             \/ \E r \in Reqs : RsvpFindFails(r)
             \/ \E r \in Reqs : RsvpSaveFails(r)
             \/ \E r \in Reqs, applied \in BOOLEAN : RsvpCommitFails(r, applied)
             \/ \E r \in Reqs : RsvpRereadFails(r)
             \/ \E r \in Reqs : CancelFindFails(r)
             \/ \E r \in Reqs, applied \in BOOLEAN : CancelSaveFails(r, applied)
             \/ \E r \in Reqs : CancelRereadFails(r)

FaultSpec == Init /\ [][FaultNext]_vars

\* Register and cancel requests and the creator's update requests with a
\* capacity of 1, arriving before the event's date.
UpdateNext == \/ \E r \in Reqs, u \in Users, e \in EventIds : RsvpStart(r, u, e)
              \/ \E r \in Reqs, u \in Users, e \in EventIds : CancelStart(r, u, e)
              \/ \E r \in Reqs : RsvpFind(r, now)
              \/ \E r \in Reqs : RsvpAbort(r)
              \/ \E r \in Reqs : RsvpSave(r)
              \/ \E r \in Reqs : RsvpCommit(r)
              \/ \E r \in Reqs : RsvpRespond(r)
              \/ \E r \in Reqs : RsvpCatch(r)
              \/ \E r \in Reqs : CancelStep(r)
              \/ \E r \in Reqs, e \in EventIds : UpdateStart(r, 1, e, 1, FALSE)
              \/ \E r \in Reqs : UpdateFind(r)
              \/ \E r \in Reqs : UpdateSave(r)
              \/ \E r \in Reqs : UpdateRespond(r)

UpdateSpec == Init /\ [][UpdateNext]_vars

\* Register requests alone on a store whose calls can throw.
SessionNext == \/ \E r \in Reqs, u \in Users, e \in EventIds : RsvpStart(r, u, e)
               \/ \E r \in Reqs : RsvpStep(r)
               \/ \E r \in Reqs : RsvpCatch(r)
               \/ \E r \in Reqs : RsvpFindFails(r)
               \/ \E r \in Reqs : RsvpSaveFails(r)
               \/ \E r \in Reqs, applied \in BOOLEAN : RsvpCommitFails(r, applied)
               \/ \E r \in Reqs : RsvpRereadFails(r)

SessionSpec == Init /\ [][SessionNext]_vars

\* Two events of the largest capacity, each with a date: the first created
\* by user 1 and with no attendee, the second created by any user and with
\* as many attendees as fit.
ListInit ==
    /\ now = 0
    /\ \E d \in [AllEventIds -> Times], c \in {1, NumUsers} :
          db = [e \in AllEventIds |->
                   IF e \in EventIds
                   THEN [NewDoc(MaxCap, 0) EXCEPT !.date = d[e]]
                   ELSE [NewDoc(MaxCap, IF NumUsers < MaxCap THEN NumUsers ELSE MaxCap)
                            EXCEPT !.date = d[e], !.creator = c]]
    /\ initial = db
    /\ req = [r \in Reqs |-> IdleReq]
    /\ files = {}

\* The three listings, while registers on the first event change who
\* attends it.
ListNext == \/ \E r \in Reqs, u \in Users, k \in ListKinds : ListStart(r, u, k)
            \/ \E r \in Reqs : ListFind(r)
            \/ \E r \in Reqs, u \in Users, e \in EventIds : RsvpStart(r, u, e)
            \/ \E r \in Reqs : RsvpFind(r, now)
            \/ \E r \in Reqs : RsvpAbort(r)
            \/ \E r \in Reqs : RsvpSave(r)
            \/ \E r \in Reqs : RsvpCommit(r)
            \/ \E r \in Reqs : RsvpRespond(r)
            \/ \E r \in Reqs : RsvpCatch(r)

ListSpec == ListInit /\ [][ListNext]_vars

\* ------------------------------------------------------------- properties
IsRsvp(r) == req[r].kind = "rsvp"
IsCancel(r) == req[r].kind = "cancel"

\* C1: under any interleaving of register and cancel requests, the stored
\* attendee list of an event is never longer than the event's capacity.
C1_CapacityInvariant ==
    \A e \in EventIds : db[e].exists => Len(db[e].attendees) <= db[e].capacity

\* Two registers read the same document with one spot left; one committed
\* and filled the event, the other was answered.
C1_Witness ==
    \E r, q \in Reqs :
        /\ r # q /\ IsRsvp(r) /\ IsRsvp(q)
        /\ req[r].decided = Proceed /\ req[q].decided = Proceed
        /\ req[r].snap = req[q].snap
        /\ Len(req[r].snap.attendees) + 1 = req[r].snap.capacity
        /\ req[r].txn = "committed"
        /\ Done(q)
        /\ Len(db[req[r].event].attendees) = db[req[r].event].capacity

\* C2: no user identifier is stored twice in an event's attendee list, also
\* when one user issues several register requests at once.
C2_NoDuplicateAttendees ==
    \A e \in EventIds : NoDuplicates(db[e].attendees)

\* One user's two registers read the same document, which had room for
\* both; one committed and the other was answered.
C2_Witness ==
    \E r, q \in Reqs :
        /\ r # q /\ IsRsvp(r) /\ IsRsvp(q)
        /\ req[r].user = req[q].user
        /\ req[r].decided = Proceed /\ req[q].decided = Proceed
        /\ req[r].snap = req[q].snap
        /\ Len(req[r].snap.attendees) + 2 <= req[r].snap.capacity
        /\ req[r].txn = "committed"
        /\ Done(q)
\* ---- the sequential register and cancel the specification describes
\* The outcome of one attempt applied alone to document doc at time t.
SeqOutcome(k, doc, uid, t) ==
    IF ~doc.exists THEN EventNotFound
    ELSE IF k = "rsvp"
         THEN IF doc.date < t THEN EventEnded
              ELSE IF uid \in Range(doc.attendees) THEN AlreadyRegistered
              ELSE IF Len(doc.attendees) >= doc.capacity THEN Full
              ELSE Registered
         ELSE IF uid \in Range(doc.attendees) THEN Cancelled ELSE NotRegistered

\* The document after that attempt.
SeqAfter(k, doc, uid, t) ==
    IF SeqOutcome(k, doc, uid, t) = Registered
    THEN [doc EXCEPT !.attendees = Append(@, uid)]
    ELSE IF SeqOutcome(k, doc, uid, t) = Cancelled
    THEN [doc EXCEPT !.attendees = SelectSeq(@, LAMBDA x : x # uid)]
    ELSE doc

\* The total orders of a set of requests.
Orders(S) == {o \in [1..Cardinality(S) -> S] : \A i, j \in 1..Cardinality(S) : o[i] = o[j] => i = j}

RECURSIVE Replay(_, _, _)
\* The document after the first i attempts of order o, replayed from start,
\* each attempt with the timestamp its handler read.
Replay(start, o, i) ==
    IF i = 0 THEN start
    ELSE SeqAfter(req[o[i]].kind, Replay(start, o, i - 1), req[o[i]].user, req[o[i]].at)

\* The requests of the run on event e have a sequential explanation.
Linearizable(e) ==
    LET S == {r \in Started : req[r].event = e}
        n == Cardinality(S)
    IN \E o \in Orders(S) :
          /\ \A i, j \in 1..n : o[i] \in req[o[j]].preds => i < j
          /\ \A i \in 1..n :
                /\ req[o[i]].outcome =
                      SeqOutcome(req[o[i]].kind, Replay(initial[e], o, i - 1), req[o[i]].user, req[o[i]].at)
                /\ Len(Replay(initial[e], o, i).attendees) <= Replay(initial[e], o, i).capacity
          /\ Range(Replay(initial[e], o, n).attendees) = Range(db[e].attendees)

\* C3: when N distinct users register concurrently on a future event with
\* no attendees and capacity C < N, and nothing else touches the event,
\* exactly C are answered Registered, exactly N - C are answered Full and
\* the event ends with C attendees.
C3_NoLostUpdate ==
    \A e \in EventIds :
        ( /\ Quiescent
          /\ Started = Reqs
          /\ \A r \in Reqs : IsRsvp(r) /\ req[r].event = e
          /\ \A r, q \in Reqs : req[r].user = req[q].user => r = q
          /\ initial[e].exists
          /\ initial[e].attendees = << >>
          /\ initial[e].capacity < MaxReqs
          /\ ~(initial[e].date < now) )
        => /\ Cardinality({r \in Reqs : req[r].outcome = Registered}) = initial[e].capacity
           /\ Cardinality({r \in Reqs : req[r].outcome = Full}) = MaxReqs - initial[e].capacity
           /\ Len(db[e].attendees) = initial[e].capacity

\* C4: a register whose write is held for commit read exactly the document
\* that is stored when it commits: attendees, capacity and every other field
\* are those of its snapshot, and no register, cancel or delete of the event
\* has committed since that read (the store's write stamp is the one read).
C4_AtomicCheckThenAct ==
    \A r \in Reqs :
        (IsRsvp(r) /\ req[r].pc = "commit")
        => /\ db[req[r].event] = req[r].snap
           /\ RsvpCheck(db[req[r].event], req[r].user, req[r].at) = Proceed

\* A register is about to commit while another request that read the same
\* document is about to write it.
C4_Witness ==
    \E r, q \in Reqs :
        /\ r # q
        /\ IsRsvp(r) /\ req[r].pc = "commit"
        /\ req[q].pc = "save"
        /\ req[q].event = req[r].event
        /\ req[q].snap = req[r].snap
\* C5: every concurrent execution of register and cancel requests on one
\* event has a total order of the requests, respecting real-time precedence,
\* whose sequential execution gives each request the outcome it received and
\* the same final attendee set, with the capacity invariant after each step.
C5_Linearizable ==
    Quiescent => \A e \in EventIds : Linearizable(e)

\* C6: once every request is answered, each user whose register was answered
\* Registered, with no cancel of theirs answered Cancelled that committed
\* later, is in the attendee list, and each user whose cancel was answered
\* Cancelled, with no register of theirs answered Registered that committed
\* later, is not: no cancel or register of another user undoes the change.
C6_NoLostUpdateByCancel ==
    Quiescent =>
    \A r \in Reqs :
        /\ ( /\ IsRsvp(r) /\ req[r].outcome = Registered
             /\ ~\E q \in Reqs : /\ IsCancel(q) /\ req[q].outcome = Cancelled
                                 /\ req[q].user = req[r].user /\ req[q].event = req[r].event
                                 /\ req[q].stamp > req[r].stamp )
           => req[r].user \in Range(db[req[r].event].attendees)
        /\ ( /\ IsCancel(r) /\ req[r].outcome = Cancelled
             /\ ~\E q \in Reqs : /\ IsRsvp(q) /\ req[q].outcome = Registered
                                 /\ req[q].user = req[r].user /\ req[q].event = req[r].event
                                 /\ req[q].stamp > req[r].stamp )
           => req[r].user \notin Range(db[req[r].event].attendees)

\* A cancel by one user read the event, a register by another user then
\* committed, and the cancel's save came after that commit; the registered
\* user is in the list.
C6_Witness ==
    /\ Quiescent
    /\ \E r, q \in Reqs :
          /\ IsCancel(r) /\ IsRsvp(q)
          /\ req[r].user # req[q].user
          /\ req[r].event = req[q].event
          /\ req[r].decided = Proceed
          /\ req[q].outcome = Registered
          /\ req[r].snap.ts < req[q].stamp
          /\ req[r].stamp = 0
          /\ req[q].user \in Range(db[req[q].event].attendees)
Without(s, uid) == SelectSeq(s, LAMBDA x : x # uid)
Count(s, uid) == Cardinality({i \in 1..Len(s) : s[i] = uid})

\* The run consists of exactly the two requests r and q, both answered.
OnlyPair(r, q) == r # q /\ Started = {r, q} /\ Done(r) /\ Done(q)

\* C7: two simultaneous cancels of one registered user, and nothing else:
\* one is answered Cancelled and the other NotRegistered, the user is removed
\* once and the other attendees are untouched.
C7_TwoCancels ==
    \A r, q \in Reqs :
        ( /\ r < q /\ OnlyPair(r, q)
          /\ IsCancel(r) /\ IsCancel(q)
          /\ req[r].user = req[q].user /\ req[r].event = req[q].event
          /\ initial[req[r].event].exists
          /\ req[r].user \in Range(initial[req[r].event].attendees) )
        => /\ {req[r].outcome, req[q].outcome} = {Cancelled, NotRegistered}
           /\ db[req[r].event].attendees = Without(initial[req[r].event].attendees, req[r].user)

\* C8: with user A registered on a future event, cancel(A) and register(A)
\* issued together, and nothing else, end either with A in the list exactly
\* once (Cancelled, then Registered) or with A absent (AlreadyRegistered,
\* then Cancelled); the other attendees are untouched.
C8_CancelRegisterInterleave ==
    \A r, q \in Reqs :
        ( /\ OnlyPair(r, q)
          /\ IsCancel(r) /\ IsRsvp(q)
          /\ req[r].user = req[q].user /\ req[r].event = req[q].event
          /\ initial[req[r].event].exists
          /\ req[r].user \in Range(initial[req[r].event].attendees)
          /\ ~(initial[req[r].event].date < req[q].at) )
        => LET a == req[r].user
               att == db[req[r].event].attendees
           IN /\ \/ /\ req[r].outcome = Cancelled
                    /\ req[q].outcome = Registered
                    /\ req[r].stamp < req[q].stamp
                    /\ Count(att, a) = 1
                 \/ /\ req[q].outcome = AlreadyRegistered
                    /\ req[r].outcome = Cancelled
                    /\ Count(att, a) = 0
              /\ Without(att, a) = Without(initial[req[r].event].attendees, a)

\* cancel(A) and register(A) overlapped in time, the cancel committed first
\* and the register then added A again beside another attendee.
C8_Witness ==
    \E r, q \in Reqs :
        /\ OnlyPair(r, q)
        /\ IsCancel(r) /\ IsRsvp(q)
        /\ req[r].user = req[q].user
        /\ req[r].user \in Range(initial[req[r].event].attendees)
        /\ r \notin req[q].preds /\ q \notin req[r].preds
        /\ req[r].outcome = Cancelled /\ req[q].outcome = Registered
        /\ Len(db[req[r].event].attendees) = 2

\* C9: register called twice in immediate succession by one user on a
\* future event that has room and does not list the user is answered
\* Registered and then AlreadyRegistered, and the attendee count grows by
\* exactly one.
C9_RegisterIdempotent ==
    \A r, q \in Reqs :
        ( /\ q = r + 1 /\ Started = 1..q /\ Done(r) /\ Done(q)
          /\ IsRsvp(r) /\ IsRsvp(q)
          /\ req[r].user = req[q].user /\ req[r].event = req[q].event
          /\ req[r].snap.exists
          /\ req[r].user \notin Range(req[r].snap.attendees)
          /\ Len(req[r].snap.attendees) < req[r].snap.capacity
          /\ ~(req[r].snap.date < req[q].at) )
        => /\ req[r].outcome = Registered
           /\ req[q].outcome = AlreadyRegistered
           /\ Len(db[req[r].event].attendees) = Len(req[r].snap.attendees) + 1
           /\ Count(db[req[r].event].attendees, req[r].user) = 1

\* Both calls were answered, the first found room for two more attendees.
C9_Witness ==
    \E r, q \in Reqs :
        /\ q = r + 1 /\ Started = 1..q /\ Done(r) /\ Done(q)
        /\ IsRsvp(r) /\ IsRsvp(q)
        /\ req[r].user = req[q].user
        /\ req[r].outcome = Registered
        /\ Len(req[r].snap.attendees) + 2 <= req[r].snap.capacity
        /\ req[q].outcome = AlreadyRegistered

Rejections == {EventNotFound, EventEnded, AlreadyRegistered, Full, NotRegistered}

\* C11: no step of a register that is answered EventNotFound, EventEnded,
\* AlreadyRegistered or Full, and no step of a cancel that is answered
\* EventNotFound or NotRegistered, changes any stored field of any event: from
\* the read that decides the rejection to the response, the collection stays
\* as it is.
C11_RejectionsDoNotMutate ==
    [][\A r \in Reqs :
          (req'[r] # req[r] /\ req'[r].decided \in Rejections) => db' = db]_vars

\* A register answered Full and a cancel answered NotRegistered, of a user
\* who never was an attendee, have both been answered and the event is the
\* one the run started with.
C11_Witness ==
    \E r, q \in Reqs :
        /\ IsRsvp(r) /\ Done(r) /\ req[r].outcome = Full
        /\ IsCancel(q) /\ Done(q) /\ req[q].outcome = NotRegistered
        /\ req[q].user \notin Range(initial[req[q].event].attendees)
        /\ initial[req[q].event].exists
        /\ db = initial

\* The write of request r becomes the committed state of its event in this step.
Commits(r) == req[r].stamp = 0 /\ req'[r].stamp # 0

\* C12: while an event exists, a user's membership changes from absent to
\* present only in the step that commits a register of that user on that
\* event, and from present to absent only in the step that commits a cancel
\* of that user on that event; a register that committed is answered
\* Registered, a cancel that committed is answered Cancelled, and an attempt
\* answered anything else has committed nothing.
C12_MembershipStateMachine ==
    [][/\ \A e \in EventIds, u \in Users :
             (db[e].exists /\ db'[e].exists) =>
                /\ (u \notin Range(db[e].attendees) /\ u \in Range(db'[e].attendees))
                   => \E r \in Reqs : /\ IsRsvp(r) /\ req[r].user = u /\ req[r].event = e
                                      /\ Commits(r)
                /\ (u \in Range(db[e].attendees) /\ u \notin Range(db'[e].attendees))
                   => \E r \in Reqs : /\ IsCancel(r) /\ req[r].user = u /\ req[r].event = e
                                      /\ Commits(r)
       /\ \A r \in Reqs :
             req'[r].pc = "done" =>
                /\ req'[r].outcome = Registered <=> (IsRsvp(r) /\ req'[r].stamp # 0)
                /\ req'[r].outcome = Cancelled <=> (IsCancel(r) /\ req'[r].stamp # 0)]_vars

\* A user who was not an attendee registered and was answered Registered,
\* then cancelled and was answered Cancelled, beside another attendee who is
\* still listed.
C12_Witness ==
    \E r, q \in Reqs :
        /\ IsRsvp(r) /\ IsCancel(q) /\ Done(r) /\ Done(q)
        /\ req[r].user = req[q].user
        /\ req[r].user \notin Range(initial[req[r].event].attendees)
        /\ req[r].outcome = Registered /\ req[q].outcome = Cancelled
        /\ req[r].stamp < req[q].stamp
        /\ db[req[r].event].attendees = initial[req[r].event].attendees
        /\ Len(db[req[r].event].attendees) = 1

\* The handler of request r has ended, with a response or without one.
Ended(r) == req[r].pc \in {"done", "hung"}

\* C13: a register or cancel that ended without Registered or Cancelled
\* (storage error, write conflict, abort of the transaction) has left the
\* event as it was: it committed no write; a user enters an attendee list
\* only in the step that commits a register's transaction; and a register
\* answered 'RSVP failed' has committed nothing.
C13_AllOrNothing ==
    [][/\ \A r \in Reqs :
             ( /\ req'[r].pc \in {"done", "hung"}
               /\ req'[r].kind \in {"rsvp", "cancel"}
               /\ req'[r].outcome \notin {Registered, Cancelled} )
             => req'[r].stamp = 0
       /\ \A e \in EventIds, u \in Users :
             (u \notin Range(db[e].attendees) /\ u \in Range(db'[e].attendees))
             => \E r \in Reqs : /\ IsRsvp(r) /\ req[r].user = u /\ req[r].event = e
                                /\ Commits(r) /\ req'[r].txn = "committed"
       /\ \A r \in Reqs :
             req'[r].outcome = RsvpFailed => (req'[r].stamp = 0 /\ req'[r].txn = "aborted")]_vars

\* The outcomes of register and cancel the specification names.
BusinessOutcomes == {Registered, AlreadyRegistered, Full, EventEnded, Cancelled,
                     NotRegistered, EventNotFound}

\* C14: with finitely many competing requests and a store whose calls do not
\* throw, every register and every cancel is answered with a business
\* outcome: one that lost a write conflict or a version check to a concurrent
\* mutation of the event is run again, not answered with a server error.
C14_ConflictRetried ==
    \A r \in Reqs :
        (Done(r) /\ (IsRsvp(r) \/ IsCancel(r))) => req[r].outcome \in BusinessOutcomes

\* A delete of event e has committed.
IsDeleted(e) == ~db[e].exists /\ db[e].ts > 0

\* Request r, a register or a cancel, is answered in this step.
Answered(r) == /\ req'[r].kind \in {"rsvp", "cancel"}
               /\ req[r].pc # "done"
               /\ req'[r].pc = "done"

\* C15 as stated: once the delete of an event has committed, the event stays
\* deleted with no attendee record, and every register or cancel on it that
\* is answered from then on, in flight at the delete or arriving later, is
\* rejected: none reports Registered or Cancelled after the delete.
C15_DeletionTerminal ==
    [][\A e \in EventIds :
          IsDeleted(e) =>
             /\ db'[e] = db[e]
             /\ \A r \in Reqs :
                   (req'[r].event = e /\ Answered(r))
                   => req'[r].outcome \notin {Registered, Cancelled}]_vars

\* C15 amended: once the delete of an event has committed, the event stays
\* deleted with no attendee record and no register or cancel commits a write
\* to it; a register or cancel answered from then on reports Registered or
\* Cancelled only when its own write committed before the delete did, and
\* every other one, in flight or arriving later, is rejected.
C15_DeletionTerminalForUncommitted ==
    [][\A e \in EventIds :
          IsDeleted(e) =>
             /\ db'[e] = db[e]
             /\ \A r \in Reqs : req'[r].event = e => ~Commits(r)
             /\ \A r \in Reqs :
                   (req'[r].event = e /\ Answered(r))
                   => \/ req'[r].outcome \in {EventNotFound, RsvpFailed, ServerError}
                                           \cup (Rejections \ {EventNotFound})
                      \/ /\ req'[r].outcome \in {Registered, Cancelled}
                         /\ req[r].stamp # 0
                         /\ req[r].stamp < db[e].ts]_vars

\* The creator's delete committed between a register's read of the event,
\* which found room, and its save; the register was answered 'RSVP failed'
\* and the event is gone.
C15_Witness ==
    \E r, q \in Reqs :
        /\ IsRsvp(r) /\ req[q].kind = "delete"
        /\ req[r].event = req[q].event
        /\ req[q].stamp # 0
        /\ req[r].snap.exists /\ req[r].decided = Proceed
        /\ req[r].snap.ts < req[q].stamp
        /\ Done(r) /\ req[r].outcome = RsvpFailed
        /\ IsDeleted(req[r].event)
        /\ db[req[r].event].attendees = << >>

\* C16: with capacity updates by the creator running alone or among
\* register and cancel requests, every stored event has at most as many
\* attendees as its capacity, and a capacity of at least 1.
C16_CapacityEditKeepsInvariant ==
    \A e \in EventIds :
        db[e].exists => (Len(db[e].attendees) <= db[e].capacity /\ db[e].capacity >= 1)

\* C17: among concurrent register, cancel and delete requests on the event,
\* a register answered Registered returns a view of the event that lists the
\* registering user and has the attendee count of the state its transaction
\* committed, and a cancel answered Cancelled returns a view of the event
\* that does not list the cancelling user.
C17_SuccessReturnsUpdatedView ==
    \A r \in Reqs :
        /\ (IsRsvp(r) /\ Done(r) /\ req[r].outcome = Registered)
           => /\ req[r].view.exists
              /\ req[r].user \in Range(req[r].view.attendees)
              /\ Len(req[r].view.attendees) = Len(req[r].snap.attendees) + 1
        /\ (IsCancel(r) /\ Done(r) /\ req[r].outcome = Cancelled)
           => /\ req[r].view.exists
              /\ req[r].user \notin Range(req[r].view.attendees)

IsUpdate(r) == req[r].kind = "update"
IsDelete(r) == req[r].kind = "delete"

\* The answer Forbidden of request r's route.
Forbidden(r) == IF IsUpdate(r) THEN NotAuthorizedUpdate ELSE NotAuthorizedDelete

\* C18: an update or delete is answered with success only when the
\* requestor is the creator of the event it read; on an existing event any
\* other requestor is answered Forbidden, and on a missing event every
\* requestor is answered NotFound; no step of a request so refused changes
\* the collection (the event record with its attendees and its image path)
\* or removes or adds an image file.
C18_ExclusiveOwnership ==
    [][\A r \in Reqs :
          (req'[r].kind \in {"update", "delete"} /\ req'[r].pc \notin {"idle", "find"}) =>
             LET q == req'[r]
                 refusal == IF q.kind = "update" THEN NotAuthorizedUpdate ELSE NotAuthorizedDelete
             IN /\ (q.pc = "done" /\ q.outcome \in {Updated, Deleted})
                   => (q.snap.exists /\ q.snap.creator = q.user)
                /\ (q.snap.exists /\ q.snap.creator # q.user)
                   => (q.pc = "done" /\ q.outcome = refusal)
                /\ ~q.snap.exists => (q.pc = "done" /\ q.outcome = EventNotFound)
                /\ (q.decided \in {refusal, EventNotFound} /\ q # req[r])
                   => (db' = db /\ files' = files)]_vars

\* On an event that has an image and attendees, a delete and an update with
\* an uploaded image, both by a user who is not the creator, were answered
\* Forbidden; the event and its image file are as they were.
C18_Witness ==
    \E r, q \in Reqs :
        /\ IsDelete(r) /\ Done(r) /\ req[r].outcome = Forbidden(r)
        /\ IsUpdate(q) /\ Done(q) /\ req[q].outcome = Forbidden(q)
        /\ req[q].file # 0 /\ req[q].arg = 1
        /\ db = initial
        /\ db[req[r].event].image # 0
        /\ db[req[r].event].image \in files
        /\ Len(db[req[r].event].attendees) = 2

\* The transaction of register r has read the event and has neither
\* committed nor aborted.
ReadAndOpen(r) == /\ IsRsvp(r)
                  /\ req[r].txn = "active"
                  /\ req[r].pc \in {"save", "commit", "abort", "catch"}

\* C19: no two RSVP transactions on one event are at the same time between
\* their read of the event and their commit or abort: the read inside the
\* transaction locks the document, so the transactions run one after the
\* other.
C19_ReadLocksDocument ==
    \A r, q \in Reqs :
        (r # q /\ req[r].event = req[q].event) => ~(ReadAndOpen(r) /\ ReadAndOpen(q))

IsCreate(r) == req[r].kind = "create"

\* C20: a create whose body has no capacity is answered 400 and a create
\* with a capacity below 1 fails validation and is answered 500; neither
\* stores an event; and every stored event, created or updated, has a
\* capacity of at least 1.
C20_CreationValidatesCapacity ==
    /\ \A e \in EventIds : db[e].exists => db[e].capacity >= 1
    /\ \A r \in Reqs :
          (IsCreate(r) /\ req[r].pc # "idle") =>
             /\ NoCapacity(req[r].arg)
                => (Done(r) /\ req[r].outcome = MissingFields /\ req[r].stamp = 0)
             /\ (~NoCapacity(req[r].arg) /\ req[r].arg < 1)
                => /\ req[r].stamp = 0
                   /\ req[r].pc \in {"save", "done"}
                   /\ Done(r) => req[r].outcome = ServerError
             /\ req[r].outcome = Created
                => (req[r].arg >= 1 /\ (req[r].view.exists => req[r].view.capacity >= 1))

\* A create with capacity 0 and a create without capacity were both
\* answered with their errors, and the collection still holds no event.
C20_Witness ==
    \E r, q \in Reqs :
        /\ IsCreate(r) /\ Done(r) /\ req[r].arg = 0 /\ req[r].outcome = ServerError
        /\ IsCreate(q) /\ Done(q) /\ NoCapacity(req[q].arg) /\ req[q].outcome = MissingFields
        /\ \A e \in EventIds : db[e] = NoDoc

\* C21: the document a create inserts, and the view its 201 response
\* returns, has an empty attendee list and the authenticated requestor as
\* creator, whatever creator and attendees the request body carries.
C21_CreationInitialState ==
    [][\A r \in Reqs :
          /\ (req'[r].kind = "create" /\ Commits(r))
             => /\ db'[req[r].event].exists
                /\ db'[req[r].event].attendees = << >>
                /\ db'[req[r].event].creator = req[r].user
          /\ (req'[r].kind = "create" /\ req'[r].outcome = Created)
             => /\ req'[r].view.attendees = << >>
                /\ req'[r].view.creator = req'[r].user]_vars

\* A create whose body names another user as creator and as attendee was
\* answered 201; the stored event has the requestor as creator and no
\* attendee.
C21_Witness ==
    \E r \in Reqs :
        /\ IsCreate(r) /\ Done(r) /\ req[r].outcome = Created
        /\ req[r].body.creator \notin {0, req[r].user}
        /\ req[r].body.attendees # << >>
        /\ db[req[r].event].exists
        /\ db[req[r].event].creator = req[r].user
        /\ db[req[r].event].attendees = << >>

\* A request other than r has arrived for r's event.
SharesEvent(r) ==
    \E q \in Reqs : /\ q # r
                     /\ req'[q].kind # "none"
                     /\ req'[q].event = req'[r].event

C23_ListingContract ==
    [][\A r \in Reqs :
          (req'[r].kind \in ListKinds /\ req[r].pc = "find" /\ req'[r].pc = "done")
          => LET l == req'[r].list
                 u == req'[r].user
             IN  /\ \A i, j \in 1..Len(l) :
                       i < j => /\ db[l[i]].date <= db[l[j]].date
                                /\ l[i] # l[j]
                 /\ \A i \in 1..Len(l) : db[l[i]].exists
                 /\ req'[r].kind = "created"
                    => \A e \in AllEventIds :
                          e \in Range(l) <=> (db[e].exists /\ db[e].creator = u)
                 /\ req'[r].kind = "attending"
                    => \A e \in AllEventIds :
                          e \in Range(l)
                             <=> ( /\ db[e].exists
                                   /\ \E i \in 1..Len(db[e].attendees) :
                                         db[e].attendees[i] = u )]_vars

\* A listing of the events a user attends returned both events, the later
\* one stored first, after a register had added the user to one of them.
C23_Witness ==
    \E r, q \in Reqs :
        /\ req[r].kind = "attending" /\ Done(r)
        /\ req[r].list = << "e2", "e1" >>
        /\ db["e2"].date < db["e1"].date
        /\ IsRsvp(q) /\ req[q].user = req[r].user
        /\ req[q].outcome = Registered
        /\ req[q].user \notin Range(initial[req[q].event].attendees)

\* The handler's commitTransaction or abortTransaction has returned.
Finished(r) == \E i \in 1..Len(req'[r].calls) : req'[r].calls[i] \in {"commit", "abort"}

\* The handler has called endSession.
SessionEnded(r) == \E i \in 1..Len(req'[r].calls) : req'[r].calls[i] = "end"

\* C24: when the RSVP handler starts its populated re-read and when it sends
\* its response, its commitTransaction or abortTransaction has returned and
\* it has ended the session; and a step it takes before any of those calls
\* sends no response, reads no populated event and leaves the committed
\* documents as they are.
C24_BoundaryNotHeldAcrossIO ==
    [][\A r \in Reqs :
          req'[r].kind = "rsvp" =>
             /\ (req'[r].pc = "reread" \/ req'[r].outcome # NoResponse
                                       \/ req'[r].view # NoDoc)
                => (Finished(r) /\ SessionEnded(r))
             /\ (req'[r] # req[r] /\ req'[r].calls = << >>)
                => /\ req'[r].outcome = NoResponse
                   /\ req'[r].view = NoDoc
                   /\ db' = db]_vars

\* One register was answered Registered with the event it re-read after its
\* commit and the end of its session, and another was answered 500 after
\* its save threw and its catch block aborted and ended the session.
C24_Witness ==
    \E r, q \in Reqs :
        /\ IsRsvp(r) /\ req[r].outcome = Registered
        /\ req[r].calls = << "commit", "end" >>
        /\ req[r].view.exists
        /\ IsRsvp(q) /\ req[q].outcome = RsvpFailed
        /\ req[q].calls = << "abort", "end" >>

\* The number of calls of request r's handler on its session that are in S.
CallCount(r, S) == Cardinality({i \in 1..Len(req[r].calls) : req[r].calls[i] \in S})

\* C25: when the RSVP handler has ended, on any path, storage errors
\* included, exactly one commitTransaction or abortTransaction of its
\* transaction has returned, no abortTransaction has returned after a
\* commitTransaction that returned, and endSession has been called exactly
\* once.
C25_TransactionLifecycle ==
    \A r \in Reqs :
        (IsRsvp(r) /\ Ended(r))
        => /\ CallCount(r, {"commit", "abort"}) = 1
           /\ \A i, j \in 1..Len(req[r].calls) :
                 (i < j /\ req[r].calls[i] = "commit") => req[r].calls[j] # "abort"
           /\ CallCount(r, {"end"}) = 1

\* C26: a register or cancel handler that has ended, on any path, storage
\* errors after the commit included, has sent a response.
C26_ExactlyOneResponse ==
    \A r \in Reqs :
        ((IsRsvp(r) \/ IsCancel(r)) /\ Ended(r)) => req[r].outcome # NoResponse

\* C27: the step in which an update's save is committed leaves the event's
\* attendees and creator as they are in the store at that step, whatever
\* registers and cancels committed since the update read the event.
C27_UpdateFrame ==
    [][\A r \in Reqs :
          (req'[r].kind = "update" /\ Commits(r))
          => /\ db'[req[r].event].attendees = db[req[r].event].attendees
             /\ db'[req[r].event].creator = db[req[r].event].creator]_vars

\* An update changed the capacity after a register had added a user between
\* the update's read and its save, and the user is still an attendee.
C27_Witness ==
    \E r, q \in Reqs :
        /\ IsUpdate(r) /\ Done(r) /\ req[r].outcome = Updated
        /\ req[r].stamp # 0
        /\ IsRsvp(q) /\ req[q].outcome = Registered
        /\ req[q].stamp > req[r].snap.ts
        /\ req[q].stamp < req[r].stamp
        /\ req[q].user \notin Range(req[r].snap.attendees)
        /\ req[q].user \in Range(db[req[r].event].attendees)
        /\ db[req[r].event].capacity # req[r].snap.capacity

C29_AvailabilityNeverNegative ==
    \A e \in EventIds :
        db[e].exists => /\ AvailableSpots(db[e]) >= 0
                        /\ AvailableSpots(db[e]) = 0 <=> IsEventFull(db[e])
====
